---- MODULE Spec2Model ----
(***************************************************************************)
(* The log pipeline of the repository: the chunked reader                  *)
(* (structure_data/structurer.py, log_parsing/test_parser.py), the SQLite  *)
(* store of the `logs` table (main.py LogProcessor,                        *)
(* store_history/test_history.py TestHistory, log_parsing/cleaner.py       *)
(* LogCleaner), the orchestrator LogAnalysis.process_log_file, the filter  *)
(* clean_logs (structure_data/structurer.py), the parser parse_log         *)
(* (log_parsing/parser.py), the history table LogAnalysisHistory           *)
(* (store_history/db_setup.py, store_history/history_manager.py), the      *)
(* cleaning calls of LogCleaner and LogProcessor, the counters of          *)
(* LogParser and the program of main.py from end to end.                   *)
(*                                                                         *)
(* Text is a sequence of character codes (ASCII), so that comparison,      *)
(* stripping and splitting are computed on characters as the code does.    *)
(* Timestamps are scaled from '%Y-%m-%d %H:%M:%S' to '%d %H': a two-digit, *)
(* zero-padded day, one space, a one-digit hour.                           *)
(***************************************************************************)
EXTENDS Integers, Sequences, FiniteSets, TLC

VARIABLES
    view,        \* the logs table and sqlite_sequence as the open connection sees them
    durable,     \* the committed database file
    conn,        \* the object that holds the open connection
    last,        \* the last store call: its name, the length of its argument, the count
                 \* of rows before it, and whether it raised
    assigned,    \* the ids of all rows that were ever committed
    file,        \* the lines of the source file
    pos,         \* how many lines the loop over the file has consumed
    chunk,       \* the chunk / batch / pending list being filled
    chunk_size,  \* the chunk_size / batch_size argument
    yielded,     \* the chunks handed on so far, in order
    pc,          \* where the reader or the run stands
    history,     \* the LogAnalysisHistory table of each history module's database file
    clock,       \* how many readings of the wall clock have passed
    call,        \* the function applied to arguments, and the arguments
    ret          \* what the call returned

readVars == <<file, pos, chunk, chunk_size, yielded, pc>>
otherVars == <<history, clock, call, ret>>
vars == <<view, durable, conn, last, assigned, file, pos, chunk, chunk_size, yielded, pc,
          history, clock, call, ret>>

---------------------------------------------------------------------------
\* Bounds of the model.

\* the largest rowid the AUTOINCREMENT counter may reach in the store specification
MaxId == 3
\* the longest batch handed to insert_logs / reinsert_logs
MaxBatch == 2
\* hours in a (scaled) day
HoursPerDay == 2
\* the largest limit / offset tried on fetch_logs
MaxPage == 3

---------------------------------------------------------------------------
\* Text.

Min(a, b) == IF a <= b THEN a ELSE b
Max(a, b) == IF a >= b THEN a ELSE b

\* SQLite's BINARY collation on TEXT, used by `timestamp < ?`: memcmp over the
\* common length, then the shorter text is the smaller.
TextLess(a, b) ==
    LET n == Min(Len(a), Len(b))
        diff == {i \in 1..n : a[i] # b[i]}
    IN  IF diff = {}
        THEN Len(a) < Len(b)
        ELSE LET k == CHOOSE i \in diff : \A j \in diff : i <= j
             IN  a[k] < b[k]

IsDigit(c) == c >= 48 /\ c <= 57

\* datetime.strftime with the (scaled) format '%d %H': zero-padded day, space, hour.
StrfTime(t) ==
    <<48 + (t.day \div 10), 48 + (t.day % 10), 32, 48 + t.hour>>

\* parse_timestamp: datetime.strptime with the (scaled) format '%d %H'. As
\* strptime does, it takes a day of one or two digits; anything else is a
\* ValueError, returned as None (ok = FALSE).
NotParsed == [ok |-> FALSE, day |-> 0, hour |-> 0]
ParseTimestamp(s) ==
    IF Len(s) = 4 /\ IsDigit(s[1]) /\ IsDigit(s[2]) /\ s[3] = 32 /\ IsDigit(s[4])
          /\ s[4] - 48 < HoursPerDay
    THEN [ok |-> TRUE, day |-> 10 * (s[1] - 48) + (s[2] - 48), hour |-> s[4] - 48]
    ELSE IF Len(s) = 3 /\ IsDigit(s[1]) /\ s[2] = 32 /\ IsDigit(s[3])
               /\ s[3] - 48 < HoursPerDay
    THEN [ok |-> TRUE, day |-> s[1] - 48, hour |-> s[3] - 48]
    ELSE NotParsed

\* a datetime as a number of hours
Instant(t) == t.day * HoursPerDay + t.hour

---------------------------------------------------------------------------
\* The values the model draws its inputs from.

\* "09 0": the canonical form of day 9, hour 0
TsOld == <<48, 57, 32, 48>>
\* "12 1": the canonical form of day 12, hour 1
TsNew == <<49, 50, 32, 49>>
\* "9 0": day 9 without the zero padding; strptime accepts it
TsUnpadded == <<57, 32, 48>>
\* "N/A": the parser's sentinel for a line without a timestamp
TsUnknown == <<78, 47, 65>>
\* "09": a date without a time, the first token process_log_file takes as timestamp
TsDateOnly == <<48, 57>>

\* "INFO", "ERROR", "m"
LevelInfo == <<73, 78, 70, 79>>
LevelError == <<69, 82, 82, 79, 82>>
Msg == <<109>>

Timestamps == {TsOld, TsNew, TsUnpadded, TsUnknown, TsDateOnly}

\* A log dictionary is a function from its keys to text.
LogDict(ts) == [timestamp |-> ts, log_level |-> LevelError, message |-> Msg]
\* a dictionary without the key "message"
Malformed == [timestamp |-> TsNew, log_level |-> LevelInfo]

LogInputs == {LogDict(ts) : ts \in Timestamps} \cup {Malformed}

SeqsUpTo(S, n) == UNION {[1..k -> S] : k \in 0..n}

Batches == SeqsUpTo(LogInputs, MaxBatch)

\* the clock readings and thresholds tried on the retention deletion
Nows == {[day |-> 12, hour |-> h] : h \in {0, 1}}
DayThresholds == {0, 2}

\* what a commit can do: succeed; fail with the transaction left open
\* (SQLITE_BUSY); fail with the transaction rolled back by SQLite (SQLITE_FULL)
CommitFaults == {"none", "busy", "full"}

---------------------------------------------------------------------------
\* The logs table.  A database state is the rows of `logs` in rowid order and
\* the AUTOINCREMENT counter kept in sqlite_sequence.  `ins` is not a column:
\* it numbers the rows in the order they were inserted.

EmptyDb == [rows |-> <<>>, seq |-> 0, tick |-> 0]

Ids(db) == {db.rows[i].id : i \in 1..Len(db.rows)}

\* id INTEGER PRIMARY KEY without AUTOINCREMENT: one more than the largest rowid in the table
NextRowId_noAutoincrement(db) ==
    IF db.rows = <<>> THEN 1 ELSE db.rows[Len(db.rows)].id + 1

\* id INTEGER PRIMARY KEY AUTOINCREMENT: one more than the largest rowid ever used
NextRowId(db) == db.seq + 1

\* the bindings a statement needs are all keys of the dictionary
Binds(log, keys) == keys \subseteq DOMAIN log

\* the first dictionary of the batch the statement cannot bind, or Len + 1
FirstUnbound(logs, keys) ==
    LET bad == {i \in 1..Len(logs) : ~Binds(logs[i], keys)}
    IN  IF bad = {} THEN Len(logs) + 1
        ELSE CHOOSE i \in bad : \A j \in bad : i <= j

InsertKeys == {"timestamp", "log_level", "message"}
ReinsertKeys == {"id", "timestamp", "log_level", "message"}

\* INSERT INTO logs (timestamp, log_level, message) VALUES (...)
InsertRow(db, log) ==
    LET id == NextRowId(db)
    IN  [rows |-> Append(db.rows,
                         [id |-> id, timestamp |-> log.timestamp,
                          log_level |-> log.log_level, message |-> log.message,
                          ins |-> db.tick + 1]),
         seq |-> Max(db.seq, id),
         tick |-> db.tick + 1]

\* an executemany that stops one dictionary short of the batch
InsertMany_skipLast(db, logs, n) ==
    LET f[i \in 0..n] == IF i = 0 THEN db ELSE InsertRow(f[i - 1], logs[i])
    IN  f[Max(0, n - 1)]

\* executemany of the INSERT over the first n dictionaries of the batch
InsertMany(db, logs, n) ==
    LET f[i \in 0..n] == IF i = 0 THEN db ELSE InsertRow(f[i - 1], logs[i])
    IN  f[n]

\* INSERT INTO logs (...) that ignores the id the caller supplies
ReplaceRow_plainInsert(db, log) == InsertRow(db, log)

\* INSERT OR REPLACE INTO logs (id, timestamp, log_level, message) VALUES (...):
\* the row with this id, if there is one, is replaced where it stands; a new id
\* takes its place in rowid order and raises sqlite_sequence to it.
ReplaceRow(db, log) ==
    LET id == log.id
        Before(r) == r.id < id
        After(r) == r.id > id
        Same(r) == r.id = id
        old == SelectSeq(db.rows, Same)
        row == [id |-> id, timestamp |-> log.timestamp,
                log_level |-> log.log_level, message |-> log.message,
                ins |-> IF old = <<>> THEN db.tick + 1 ELSE old[1].ins]
    IN  [rows |-> SelectSeq(db.rows, Before) \o <<row>> \o SelectSeq(db.rows, After),
         seq |-> Max(db.seq, id),
         tick |-> IF old = <<>> THEN db.tick + 1 ELSE db.tick]

\* executemany of the INSERT OR REPLACE over the first n dictionaries of the batch
ReplaceMany(db, logs, n) ==
    LET f[i \in 0..n] == IF i = 0 THEN db ELSE ReplaceRow(f[i - 1], logs[i])
    IN  f[n]

\* DELETE FROM logs WHERE timestamp < ? : the comparison is on the text
DeleteOlder(db, cutoff_date_str) ==
    LET Kept(r) == ~TextLess(r.timestamp, cutoff_date_str)
    IN  [db EXCEPT !.rows = SelectSeq(db.rows, Kept)]

\* datetime.now() - timedelta(days = days_threshold), formatted for the query
CutoffDate(now, days_threshold) ==
    [day |-> now.day - days_threshold, hour |-> now.hour]
CutoffDateStr(now, days_threshold) == StrfTime(CutoffDate(now, days_threshold))

\* SELECT COUNT(*) FROM logs
CountLogs(db) == Len(db.rows)

\* SELECT ... FROM logs LIMIT ? OFFSET ? : a scan of the table in rowid order;
\* a negative LIMIT is no limit and a negative OFFSET is no offset.
FetchRows(db, limit, offset) ==
    LET n == Len(db.rows)
        skip == Max(0, offset)
        hi == IF limit < 0 THEN n ELSE Min(n, skip + limit)
    IN  SubSeq(db.rows, skip + 1, hi)

\* LogProcessor.fetch_logs / TestHistory.fetch_logs: the three text columns
FetchLogs(db, limit, offset) ==
    LET rows == FetchRows(db, limit, offset)
    IN  [i \in 1..Len(rows) |->
            [timestamp |-> rows[i].timestamp, log_level |-> rows[i].log_level,
             message |-> rows[i].message]]

\* LogCleaner.fetch_logs: the id and the three text columns
CleanerFetchLogs(db, limit, offset) ==
    LET rows == FetchRows(db, limit, offset)
    IN  [i \in 1..Len(rows) |->
            [id |-> rows[i].id, timestamp |-> rows[i].timestamp,
             log_level |-> rows[i].log_level, message |-> rows[i].message]]

---------------------------------------------------------------------------
\* The history table LogAnalysisHistory (store_history/db_setup.py and
\* store_history/history_manager.py, each with a database file of its own).

\* the most entries a history table is given
MaxEntries == 2

Modules == {"db_setup", "history_manager"}

\* CREATE TABLE IF NOT EXISTS LogAnalysisHistory: the rows in rowid order and
\* the AUTOINCREMENT counter
EmptyHistory == [rows |-> <<>>, seq |-> 0]

\* Python's None, which is no text: a code that no character has
None == <<-1>>

\* the empty dictionary {}
EmptyDict == [k \in {} |-> <<>>]

\* no call was made yet
NoCall == [fn |-> "none"]

\* the readings of the wall clock, in the order they pass
ClockReadings ==
    <<[day |-> 9, hour |-> 0], [day |-> 10, hour |-> 0], [day |-> 12, hour |-> 1]>>

\* CURRENT_TIMESTAMP, the default of the column `timestamp`
CurrentTimestamp(reading) == StrfTime(ClockReadings[reading])

\* DATE('now', '-N days'): the date, without the time of day
DateNowMinus(reading, older_than_days) ==
    LET t == CutoffDate(ClockReadings[reading], older_than_days)
    IN  <<48 + (t.day \div 10), 48 + (t.day % 10)>>

\* INSERT INTO LogAnalysisHistory (log_entry, root_cause) VALUES (?, ?)
InsertEntry(table, log_entry, root_cause, reading) ==
    [rows |-> Append(table.rows,
                     [id |-> table.seq + 1, log_entry |-> log_entry,
                      root_cause |-> root_cause,
                      timestamp |-> CurrentTimestamp(reading)]),
     seq |-> table.seq + 1]

\* log_entry TEXT NOT NULL, root_cause TEXT NOT NULL
NotNull(log_entry, root_cause) == log_entry # None /\ root_cause # None

\* a lookup that answers with the first row of the table, whatever its id
FetchHistoryById_firstRow(table, log_id) ==
    IF table.rows = <<>> THEN EmptyDict
    ELSE [log_entry |-> table.rows[1].log_entry,
          root_cause |-> table.rows[1].root_cause,
          timestamp |-> table.rows[1].timestamp]

\* fetch_history_by_id: SELECT log_entry, root_cause, timestamp ... WHERE id = ?,
\* fetchone(), and the dictionary made of the row, or {} when there is no row
FetchHistoryById(table, log_id) ==
    LET found == {i \in 1..Len(table.rows) : table.rows[i].id = log_id}
    IN  IF found = {} THEN EmptyDict
        ELSE LET row == table.rows[CHOOSE i \in found : \A j \in found : i <= j]
             IN  [log_entry |-> row.log_entry, root_cause |-> row.root_cause,
                  timestamp |-> row.timestamp]

---------------------------------------------------------------------------
\* The store's calls.  Each runs its statement in the connection's implicit
\* transaction and then calls conn.commit(); no call rolls back when the
\* statement or the commit raises.

\* self.conn.commit(), after a statement that left the table as `done`
\* (raised = the statement raised, and commit was never reached)
Commit(op, n, done, raised, fault) ==
    /\ view' = IF ~raised /\ fault = "full" THEN durable ELSE done
    /\ durable' = IF ~raised /\ fault = "none" THEN done ELSE durable
    /\ assigned' = assigned \cup Ids(durable')
    /\ last' = [op |-> op, n |-> n, before |-> Len(view.rows),
                raised |-> raised \/ fault # "none"]

\* a call that returns without touching the database
NoOp(op) ==
    /\ last' = [op |-> op, n |-> 0, before |-> Len(view.rows), raised |-> FALSE]
    /\ UNCHANGED <<view, durable, assigned>>

\* LogProcessor.insert_logs / TestHistory.insert_logs
InsertLogs(logs, fault) ==
    /\ conn \in {"LogProcessor", "TestHistory"}
    /\ view.seq + Len(logs) <= MaxId
    /\ view.tick + Len(logs) <= MaxId
    /\ FirstUnbound(logs, InsertKeys) <= Len(logs) \/ logs = <<>> => fault = "none"
    /\ IF logs = <<>>
       THEN NoOp("insert_logs")
       ELSE LET stop == FirstUnbound(logs, InsertKeys)
            IN  Commit("insert_logs", Len(logs), InsertMany(view, logs, stop - 1),
                       stop <= Len(logs), fault)
    /\ UNCHANGED <<conn, file, pos, chunk, chunk_size, yielded, pc>>
    /\ UNCHANGED otherVars

\* LogCleaner.remove_old_logs / TestHistory.delete_old_logs
RemoveOldLogs(now, days_threshold, fault) ==
    /\ conn \in {"LogCleaner", "TestHistory"}
    /\ days_threshold <= now.day
    /\ Commit("remove_old_logs", 0,
              DeleteOlder(view, CutoffDateStr(now, days_threshold)), FALSE, fault)
    /\ UNCHANGED <<conn, file, pos, chunk, chunk_size, yielded, pc>>
    /\ UNCHANGED otherVars

\* the dictionaries handed to reinsert_logs: a low id, the highest id, and a
\* dictionary without the key "id"
ReinsertInputs ==
    {[id |-> i, timestamp |-> TsUnknown, log_level |-> LevelError, message |-> Msg] :
        i \in {1, MaxId}} \cup {Malformed}
ReinsertBatches == SeqsUpTo(ReinsertInputs, MaxBatch)

\* the ids of a batch that the table does not hold yet
NewIds(db, logs) ==
    {logs[i].id : i \in {j \in 1..Len(logs) : "id" \in DOMAIN logs[j]}} \ Ids(db)

\* the body of reinsert_logs: nothing for an empty list, else the executemany
\* and the commit
Reinserted(logs, fault) ==
    /\ FirstUnbound(logs, ReinsertKeys) <= Len(logs) \/ logs = <<>> => fault = "none"
    /\ LET stop == FirstUnbound(logs, ReinsertKeys)
           done == ReplaceMany(view, logs, stop - 1)
       IN  /\ done.tick <= MaxId
           /\ IF logs = <<>>
              THEN NoOp("reinsert_logs")
              ELSE Commit("reinsert_logs", Len(logs), done, stop <= Len(logs), fault)

\* LogCleaner.reinsert_logs
ReinsertLogs(logs, fault) ==
    /\ conn = "LogCleaner"
    /\ Reinserted(logs, fault)
    /\ UNCHANGED <<conn, file, pos, chunk, chunk_size, yielded, pc>>
    /\ UNCHANGED otherVars

\* close() of the connected object, which drops the open transaction, and the
\* construction of another one on the same database file
Connect(c) ==
    /\ c # conn
    /\ conn' = c
    /\ view' = durable
    /\ last' = [op |-> "connect", n |-> 0, before |-> Len(view.rows), raised |-> FALSE]
    /\ UNCHANGED <<durable, assigned, file, pos, chunk, chunk_size, yielded, pc>>
    /\ UNCHANGED otherVars

Connections == {"TestHistory", "LogCleaner"}

Init ==
    /\ view = EmptyDb
    /\ durable = EmptyDb
    /\ conn = "TestHistory"
    /\ last = [op |-> "connect", n |-> 0, before |-> 0, raised |-> FALSE]
    /\ assigned = {}
    /\ file = <<>>
    /\ pos = 0
    /\ chunk = <<>>
    /\ chunk_size = 1
    /\ yielded = <<>>
    /\ pc = "IDLE"
    /\ history = [m \in Modules |-> EmptyHistory]
    /\ clock = 1
    /\ call = NoCall
    /\ ret = NoCall

Next ==
    \/ \E logs \in Batches, fault \in CommitFaults : InsertLogs(logs, fault)
    \/ \E now \in Nows, d \in DayThresholds, fault \in CommitFaults :
          RemoveOldLogs(now, d, fault)
    \/ \E c \in Connections : Connect(c)

Spec == Init /\ [][Next]_vars

\* The store with the cleaner's re-insertion: the batches inserted are well
\* formed, and faults strike the re-insertion only.
CleanerBatches == SeqsUpTo({LogDict(TsOld), LogDict(TsNew)}, MaxBatch)

NextCleaner ==
    \/ \E logs \in CleanerBatches : InsertLogs(logs, "none")
    \/ \E now \in Nows, d \in DayThresholds : RemoveOldLogs(now, d, "none")
    \/ \E logs \in ReinsertBatches, fault \in CommitFaults : ReinsertLogs(logs, fault)
    \/ \E c \in Connections : Connect(c)

SpecCleaner == Init /\ [][NextCleaner]_vars

---------------------------------------------------------------------------
\* Properties of the store.

\* the rows of the table in the order they were inserted
InsertionOrder(db) ==
    LET n == Len(db.rows)
        Rank(i) == Cardinality({j \in 1..n : db.rows[j].ins <= db.rows[i].ins})
    IN  [k \in 1..n |-> db.rows[CHOOSE i \in 1..n : Rank(i) = k]]

\* the three text columns of a sequence of rows
Columns(rows) ==
    [i \in 1..Len(rows) |->
        [timestamp |-> rows[i].timestamp, log_level |-> rows[i].log_level,
         message |-> rows[i].message]]

\* C1: a batch handed to insert_logs is atomic: after the call either all of
\* its records are visible to fetch_logs / count_logs or none is; after a call
\* that raised none is; and what a call commits is what that call inserted,
\* never the records of an earlier, failed batch.
C1_BatchIsAtomic ==
    [][\A logs \in Batches, fault \in CommitFaults :
          InsertLogs(logs, fault) =>
              /\ Cardinality(Ids(view') \ Ids(view)) \in {0, Len(logs)}
              /\ last'.raised => CountLogs(view') = CountLogs(view)
              /\ Ids(durable') \ Ids(durable) \subseteq Ids(view') \ Ids(view)]_vars

\* C5: the ids the store assigns on insert are fresh and increasing: an id
\* that insert_logs adds to the committed table is greater than every id that
\* was ever committed before (so none is used twice, also not the id of a
\* deleted row), and a committed row keeps its id for as long as it is stored.
C5_IdsFreshIncreasingImmutable ==
    [][/\ \A id \in Ids(durable') \ Ids(durable) : \A old \in assigned : id > old
       /\ \A i \in 1..Len(durable.rows), j \in 1..Len(durable'.rows) :
              durable.rows[i].ins = durable'.rows[j].ins
                  => durable.rows[i].id = durable'.rows[j].id
       /\ Cardinality(Ids(durable')) = Len(durable'.rows)]_vars

\* a committed insert after a row with a smaller id was deleted
C5_Witness ==
    /\ last.op = "insert_logs" /\ ~last.raised /\ last.n > 0
    /\ view = durable
    /\ \E old \in assigned \ Ids(durable) :
           \E i \in 1..Len(durable.rows) :
               durable.rows[i].id > old /\ durable.rows[i].id = durable.seq

\* C6: fetch_logs(limit, offset) with limit >= 1 and offset >= 0 returns the
\* records at positions offset+1 .. offset+limit of the insertion order (fewer
\* at the end, none beyond it), so the pages of any limit, concatenated, are
\* the whole insertion order.
PageConcat(db, limit) ==
    LET pages == (Len(db.rows) + limit - 1) \div limit
        f[k \in 0..pages] ==
            IF k = 0 THEN <<>> ELSE f[k - 1] \o FetchLogs(db, limit, (k - 1) * limit)
    IN  f[pages]

C6_FetchIsInsertionOrder ==
    \A limit \in 1..MaxPage, offset \in 0..MaxPage :
        /\ FetchLogs(view, limit, offset) =
              SubSeq(Columns(InsertionOrder(view)), offset + 1,
                     Min(Len(view.rows), offset + limit))
        /\ PageConcat(view, limit) = Columns(InsertionOrder(view))

C8_UnparseableIsRetained ==
    [][\A now \in Nows, d \in DayThresholds :
          RemoveOldLogs(now, d, "none") =>
              \A i \in 1..Len(view.rows) :
                  ~ParseTimestamp(view.rows[i].timestamp).ok
                      => \E j \in 1..Len(view'.rows) : view'.rows[j] = view.rows[i]]_vars

\* C9: the retention deletion removes every record whose timestamp parses to
\* an instant older than now - days and keeps every record whose timestamp
\* parses to an instant that is not older.
C9_RemovesExactlyTheOlder ==
    [][\A now \in Nows, d \in DayThresholds :
          RemoveOldLogs(now, d, "none") =>
              \A i \in 1..Len(view.rows) :
                  LET t == ParseTimestamp(view.rows[i].timestamp)
                      kept == \E j \in 1..Len(view'.rows) : view'.rows[j] = view.rows[i]
                  IN  t.ok => (kept <=> Instant(t) >= Instant(CutoffDate(now, d)))]_vars

\* C10: reinsert_logs is an upsert by id: a call that returns leaves one row
\* per id, adds a row only for an id that was not stored, leaves under each id
\* of the batch the last record the batch gives it and every other row as it
\* was, and changes nothing when it is applied a second time.
C10_ReinsertIsUpsert ==
    [][\A logs \in ReinsertBatches :
          (/\ last'.op = "reinsert_logs" /\ last'.n = Len(logs) /\ ~last'.raised
           /\ ReinsertLogs(logs, "none")) =>
              /\ Cardinality(Ids(view')) = Len(view'.rows)
              /\ CountLogs(view') = CountLogs(view) + Cardinality(NewIds(view, logs))
              /\ \A j \in 1..Len(view'.rows) :
                     LET r == view'.rows[j]
                         given == {i \in 1..Len(logs) : logs[i].id = r.id}
                     IN  IF given = {}
                         THEN \E i \in 1..Len(view.rows) : view.rows[i] = r
                         ELSE LET i == CHOOSE i \in given : \A k \in given : k <= i
                              IN  /\ r.timestamp = logs[i].timestamp
                                  /\ r.log_level = logs[i].log_level
                                  /\ r.message = logs[i].message
              /\ ReplaceMany(view', logs, Len(logs)).rows = view'.rows]_vars

\* a committed re-insertion that added no row: every id it named was stored
C10_Witness ==
    /\ last.op = "reinsert_logs" /\ ~last.raised /\ last.n > 0
    /\ last.before > 0 /\ CountLogs(view) = last.before
    /\ view = durable

---------------------------------------------------------------------------
\* The chunked reader.

\* the longest source file, in lines
MaxLines == 5
\* the largest chunk_size / batch_size
MaxChunk == 3

\* the characters str.strip() removes: tab .. carriage return, the separators
\* 28 .. 31, and the space
IsSpace(c) == (c >= 9 /\ c <= 13) \/ (c >= 28 /\ c <= 32)

\* line.strip()
Strip(line) ==
    LET solid == {i \in 1..Len(line) : ~IsSpace(line[i])}
    IN  IF solid = {} THEN <<>>
        ELSE SubSeq(line, CHOOSE i \in solid : \A j \in solid : i <= j,
                          CHOOSE i \in solid : \A j \in solid : i >= j)

\* the lines a text file gives when it is iterated: " a \n", "\n", "b\n", and,
\* as the last line only, a line without its newline: " a", "b"
Lines == {<<32, 97, 32, 10>>, <<10>>, <<98, 10>>}
LastLines == {<<32, 97>>, <<98>>}
Sources ==
    {f \in SeqsUpTo(Lines \cup LastLines, MaxLines) :
        \A i \in 1..(Len(f) - 1) : f[i] \in Lines}

\* a chunk that is flushed only once it is longer than chunk_size
ChunkFull_offByOne(c, size) == Len(c) > size

\* if len(chunk) >= chunk_size
ChunkFull(c, size) == Len(c) >= size

\* a reader that forgets the lines left over after the loop
Remainder_dropped(c) == <<>>

\* if chunk: yield chunk (after the loop): the chunks this adds
Remainder(c) == IF c # <<>> THEN <<c>> ELSE <<>>

\* if len(batch) >= self.batch_size
BatchFull(b, size) == Len(b) >= size

\* if batch: self.process_batch(batch) (after the loop)
BatchRemainder(b) == IF b # <<>> THEN <<b>> ELSE <<>>

\* read_large_log_file, one turn of `for line in file`
ReadLine ==
    /\ pc = "reading"
    /\ pos < Len(file)
    /\ LET c == Append(chunk, Strip(file[pos + 1]))
       IN  IF ChunkFull(c, chunk_size)
           THEN yielded' = Append(yielded, c) /\ chunk' = <<>>
           ELSE yielded' = yielded /\ chunk' = c
    /\ pos' = pos + 1
    /\ UNCHANGED <<pc, file, chunk_size, view, durable, conn, last, assigned>>
    /\ UNCHANGED otherVars

\* read_large_log_file, the end of the file
ReadEnd ==
    /\ pc = "reading"
    /\ pos = Len(file)
    /\ yielded' = yielded \o Remainder(chunk)
    /\ pc' = "exhausted"
    /\ UNCHANGED <<pos, chunk, file, chunk_size, view, durable, conn, last, assigned>>
    /\ UNCHANGED otherVars

\* read_large_log_file, open() or the read of the next line raises: the
\* generator ends with the exception and its chunk is lost with its frame
ReadError ==
    /\ pc = "reading"
    /\ pos < Len(file)
    /\ chunk' = <<>>
    /\ pc' = "raised"
    /\ UNCHANGED <<pos, yielded, file, chunk_size, view, durable, conn, last, assigned>>
    /\ UNCHANGED otherVars

\* LogParser.parse_logs, one turn of `for line in log_file`; the batches
\* handed to process_batch are collected in `yielded`
ParseLogsLine ==
    /\ pc = "parsing"
    /\ pos < Len(file)
    /\ LET b == Append(chunk, Strip(file[pos + 1]))
       IN  IF BatchFull(b, chunk_size)
           THEN yielded' = Append(yielded, b) /\ chunk' = <<>>
           ELSE yielded' = yielded /\ chunk' = b
    /\ pos' = pos + 1
    /\ UNCHANGED <<pc, file, chunk_size, view, durable, conn, last, assigned>>
    /\ UNCHANGED otherVars

\* LogParser.parse_logs, the end of the file
ParseLogsEnd ==
    /\ pc = "parsing"
    /\ pos = Len(file)
    /\ yielded' = yielded \o BatchRemainder(chunk)
    /\ pc' = "parsed"
    /\ UNCHANGED <<pos, chunk, file, chunk_size, view, durable, conn, last, assigned>>
    /\ UNCHANGED otherVars

\* LogParser.parse_logs, open() or a read raises: the except clause logs the
\* error and the method returns
ParseLogsError ==
    /\ pc = "parsing"
    /\ pos < Len(file)
    /\ chunk' = <<>>
    /\ pc' = "logged"
    /\ UNCHANGED <<pos, yielded, file, chunk_size, view, durable, conn, last, assigned>>
    /\ UNCHANGED otherVars

InitReader ==
    /\ view = EmptyDb
    /\ durable = EmptyDb
    /\ conn = "LogProcessor"
    /\ last = [op |-> "connect", n |-> 0, before |-> 0, raised |-> FALSE]
    /\ assigned = {}
    /\ file \in Sources
    /\ chunk_size \in 1..MaxChunk
    /\ pos = 0
    /\ chunk = <<>>
    /\ yielded = <<>>
    /\ pc \in {"reading", "parsing"}
    /\ history = [m \in Modules |-> EmptyHistory]
    /\ clock = 1
    /\ call = NoCall
    /\ ret = NoCall

NextReader ==
    \/ ReadLine
    \/ ReadEnd
    \/ ReadError
    \/ ParseLogsLine
    \/ ParseLogsEnd
    \/ ParseLogsError

SpecReader == InitReader /\ [][NextReader]_vars

\* Properties of the reader.

\* the lines of a sequence of chunks, in order
Flatten(chunks) ==
    LET f[k \in 0..Len(chunks)] == IF k = 0 THEN <<>> ELSE f[k - 1] \o chunks[k]
    IN  f[Len(chunks)]

\* s is the line without its leading and trailing whitespace
IsStripOf(s, line) ==
    \E i \in 1..(Len(line) + 1), j \in 0..Len(line) :
        /\ s = SubSeq(line, i, j)
        /\ \A k \in 1..Len(line) : (k < i \/ k > j) => IsSpace(line[k])
        /\ s # <<>> => ~IsSpace(s[1]) /\ ~IsSpace(s[Len(s)])

\* the reader has come to its end without an error
ReadToEnd == pc \in {"exhausted", "parsed"}

\* C3: for every source and chunk size N >= 1 the chunks of
\* read_large_log_file and the batches of parse_logs hold at most N lines, all
\* but the last hold exactly N, none is empty, there are ceil(lines / N) of
\* them at the end, and an empty source gives none.
C3_ChunkSizes ==
    /\ \A i \in 1..Len(yielded) :
           /\ Len(yielded[i]) >= 1
           /\ Len(yielded[i]) <= chunk_size
           /\ (i < Len(yielded) \/ ~ReadToEnd) => Len(yielded[i]) = chunk_size
    /\ ReadToEnd => Len(yielded) = (Len(file) + chunk_size - 1) \div chunk_size
    /\ (ReadToEnd /\ file = <<>>) => yielded = <<>>

\* five lines read in chunks of two: chunks of 2, 2 and 1 lines
C3_Witness ==
    /\ pc = "exhausted"
    /\ Len(file) = 5 /\ chunk_size = 2
    /\ Len(yielded) = 3
    /\ Len(yielded[1]) = 2 /\ Len(yielded[2]) = 2 /\ Len(yielded[3]) = 1

\* C4: the chunks of read_large_log_file, concatenated in the order they are
\* yielded, are the stripped lines of the source in source order: all of them
\* once the file is read to its end, the lines of the full chunks read so far
\* while it is being read, and still those after a read error.
C4_ChunksAreTheLines ==
    pc \in {"reading", "exhausted", "raised"} =>
        LET got == Flatten(yielded)
        IN  /\ Len(got) = IF pc = "exhausted" THEN Len(file)
                          ELSE (pos \div chunk_size) * chunk_size
            /\ \A k \in 1..Len(got) : IsStripOf(got[k], file[k])

\* a read error in the middle of a chunk, after chunks were yielded
C4_Witness ==
    /\ pc = "raised"
    /\ yielded # <<>>
    /\ pos > Len(Flatten(yielded))

---------------------------------------------------------------------------
\* The pipeline: LogAnalysis.process_log_file over a LogProcessor.

\* the index of the first space of s, 0 when it has none
FirstSpace(s) ==
    LET at == {i \in 1..Len(s) : s[i] = 32}
    IN  IF at = {} THEN 0 ELSE CHOOSE i \in at : \A j \in at : i <= j

\* s.split(" ", 2)
Split2(s) ==
    LET i == FirstSpace(s)
        rest == SubSeq(s, i + 1, Len(s))
        j == FirstSpace(rest)
    IN  IF i = 0 THEN <<s>>
        ELSE IF j = 0 THEN <<SubSeq(s, 1, i - 1), rest>>
        ELSE <<SubSeq(s, 1, i - 1), SubSeq(rest, 1, j - 1),
               SubSeq(rest, j + 1, Len(rest))>>

\* the records one line adds to `logs`: one when the line has three parts
ParsedLine(line) ==
    LET parts == Split2(Strip(line))
    IN  IF Len(parts) >= 3
        THEN <<[timestamp |-> parts[1], log_level |-> parts[2], message |-> parts[3]]>>
        ELSE <<>>

\* a test that lets the list grow one record past the chunk size
LogsFull_onePast(logs, size) == Len(logs) > size

\* if len(logs) >= chunk_size
LogsFull(logs, size) == Len(logs) >= size

\* the lines of a log file: "09 0 E m\n" (date, time, rest), "ab\n" and "a b\n"
LogLines ==
    {<<48, 57, 32, 48, 32, 69, 32, 109, 10>>, <<97, 98, 10>>, <<97, 32, 98, 10>>}
LogFiles == SeqsUpTo(LogLines, MaxLines)

\* the faults of a commit that make insert_logs raise
Raises(fault) == fault # "none"

\* process_log_file is called: the file is opened
ProcessStart ==
    /\ pc = "IDLE"
    /\ pc' = "RUNNING"
    /\ pos' = 0
    /\ chunk' = <<>>
    /\ UNCHANGED <<yielded, file, chunk_size, view, durable, conn, last, assigned>>
    /\ UNCHANGED otherVars

\* one turn of `for line in file`, with the insert_logs call it makes when the
\* chunk is full; the batches insert_logs returned from are collected in
\* `yielded`
ProcessLine(fault) ==
    /\ pc = "RUNNING"
    /\ pos < Len(file)
    /\ pos' = pos + 1
    /\ LET logs == chunk \o ParsedLine(file[pos + 1])
       IN  IF LogsFull(logs, chunk_size)
           THEN /\ Commit("insert_logs", Len(logs), InsertMany(view, logs, Len(logs)),
                          FALSE, fault)
                /\ chunk' = <<>>
                /\ yielded' = IF Raises(fault) THEN yielded ELSE Append(yielded, logs)
                /\ pc' = IF Raises(fault) THEN "FAILED" ELSE "RUNNING"
           ELSE /\ fault = "none"
                /\ chunk' = logs
                /\ UNCHANGED <<yielded, pc, view, durable, last, assigned>>
    /\ UNCHANGED <<file, chunk_size, conn>>
    /\ UNCHANGED otherVars

\* the end of the file, with the insert_logs call for the remaining logs
ProcessEnd(fault) ==
    /\ pc = "RUNNING"
    /\ pos = Len(file)
    /\ IF chunk # <<>>
       THEN /\ Commit("insert_logs", Len(chunk), InsertMany(view, chunk, Len(chunk)),
                      FALSE, fault)
            /\ yielded' = IF Raises(fault) THEN yielded ELSE Append(yielded, chunk)
            /\ pc' = IF Raises(fault) THEN "FAILED" ELSE "COMPLETED"
       ELSE /\ fault = "none"
            /\ pc' = "COMPLETED"
            /\ UNCHANGED <<yielded, view, durable, last, assigned>>
    /\ chunk' = <<>>
    /\ UNCHANGED <<pos, file, chunk_size, conn>>
    /\ UNCHANGED otherVars

\* open() or the read of the next line raises
ProcessReadError ==
    /\ pc = "RUNNING"
    /\ pos < Len(file)
    /\ pc' = "FAILED"
    /\ chunk' = <<>>
    /\ UNCHANGED <<pos, yielded, file, chunk_size, view, durable, conn, last, assigned>>
    /\ UNCHANGED otherVars

InitPipeline ==
    /\ view = EmptyDb
    /\ durable = EmptyDb
    /\ conn = "LogProcessor"
    /\ last = [op |-> "connect", n |-> 0, before |-> 0, raised |-> FALSE]
    /\ assigned = {}
    /\ file \in LogFiles
    /\ chunk_size \in 1..MaxChunk
    /\ pos = 0
    /\ chunk = <<>>
    /\ yielded = <<>>
    /\ pc = "IDLE"
    /\ history = [m \in Modules |-> EmptyHistory]
    /\ clock = 1
    /\ call = NoCall
    /\ ret = NoCall

NextPipeline ==
    \/ ProcessStart
    \/ \E fault \in CommitFaults : ProcessLine(fault)
    \/ \E fault \in CommitFaults : ProcessEnd(fault)
    \/ ProcessReadError

SpecPipeline == InitPipeline /\ [][NextPipeline]_vars

\* Properties of the pipeline.

\* C2: when a run of process_log_file has failed, the store holds, for its own
\* reads and on disk, the records of the chunks that were committed before the
\* failure and no record of the chunk that failed.
C2_FailureKeepsCommittedChunksOnly ==
    pc = "FAILED" =>
        /\ Columns(view.rows) = Flatten(yielded)
        /\ Columns(durable.rows) = Flatten(yielded)

---------------------------------------------------------------------------
\* The calls of the history modules.  Each opens a connection of its own; a
\* connection that is dropped without commit() rolls its transaction back.

\* the texts given as log entry and root cause
LogEntry == <<108>>
RootCause == <<99>>

\* the results handed to store_batch_analysis_results: a well-formed one, one
\* whose log is None, and one without the key "log"
GoodResult == [log |-> LogEntry, root_cause |-> RootCause]
NullResult == [log |-> None, root_cause |-> RootCause]
KeylessResult == [root_cause |-> RootCause]
ResultBatches == SeqsUpTo({GoodResult, NullResult, KeylessResult}, MaxBatch)

\* the thresholds tried on delete_old_history
OlderThanDays == {0, 2}

\* what a history call leaves in `call` and `ret`: db_setup raises the error
\* again after logging it, history_manager only logs it
Returned(fn, m, failed) ==
    /\ call' = [fn |-> fn, module |-> m]
    /\ ret' = [raised |-> failed /\ m = "db_setup"]

\* the table store_analysis_result leaves behind, and whether it met an error:
\* the connection of a call that fails is dropped with its transaction open
StoredResult(table, log_entry, root_cause, fault, reading) ==
    LET ok == NotNull(log_entry, root_cause) /\ fault = "none"
    IN  [table |-> IF ok THEN InsertEntry(table, log_entry, root_cause, reading)
                   ELSE table,
         failed |-> ~ok]

\* store_analysis_result
StoreAnalysisResult(m, log_entry, root_cause, fault) ==
    /\ history[m].seq < MaxEntries
    /\ LET done == StoredResult(history[m], log_entry, root_cause, fault, clock)
       IN  /\ history' = [history EXCEPT ![m] = done.table]
           /\ Returned("store_analysis_result", m, done.failed)
    /\ UNCHANGED <<clock, view, durable, conn, last, assigned, readVars>>

\* the rows executemany is given: the list comprehension over batch_results,
\* which raises KeyError on a result without "log" or "root_cause"
BatchRows(batch_results) ==
    IF \A i \in 1..Len(batch_results) :
           {"log", "root_cause"} \subseteq DOMAIN batch_results[i]
    THEN [ok |-> TRUE, rows |-> [i \in 1..Len(batch_results) |->
                                    <<batch_results[i].log, batch_results[i].root_cause>>]]
    ELSE [ok |-> FALSE, rows |-> <<>>]

\* executemany(insert_query, rows): the table after the rows before the first
\* one that violates NOT NULL, and whether one did
InsertEntries(table, rows, reading) ==
    LET f[k \in 0..Len(rows)] ==
            IF k = 0 THEN [table |-> table, ok |-> TRUE]
            ELSE IF f[k - 1].ok /\ NotNull(rows[k][1], rows[k][2])
                 THEN [table |-> InsertEntry(f[k - 1].table, rows[k][1], rows[k][2], reading),
                       ok |-> TRUE]
                 ELSE [table |-> f[k - 1].table, ok |-> FALSE]
    IN  f[Len(rows)]

\* a batch store that commits the rows inserted before a row was refused
StoredBatch_keepsRowsBeforeError(table, batch_results, fault, reading) ==
    LET given == BatchRows(batch_results)
        done == InsertEntries(table, given.rows, reading)
    IN  [table |-> IF given.ok /\ fault = "none" THEN done.table ELSE table,
         failed |-> ~(given.ok /\ done.ok /\ fault = "none")]

\* the table store_batch_analysis_results leaves behind, and whether it met an
\* error: the rows go in by one executemany and one commit, and the connection
\* of a call that fails is dropped with its transaction open
StoredBatch(table, batch_results, fault, reading) ==
    LET given == BatchRows(batch_results)
        done == InsertEntries(table, given.rows, reading)
        ok == given.ok /\ done.ok /\ fault = "none"
    IN  [table |-> IF ok THEN done.table ELSE table, failed |-> ~ok]

\* store_batch_analysis_results
StoreBatchAnalysisResults(m, batch_results, fault) ==
    /\ history[m].seq + Len(batch_results) <= MaxEntries
    /\ LET done == StoredBatch(history[m], batch_results, fault, clock)
       IN  /\ history' = [history EXCEPT ![m] = done.table]
           /\ ret' = [raised |-> done.failed /\ m = "db_setup"]
    /\ call' = [fn |-> "store_batch_analysis_results", module |-> m,
                batch_results |-> batch_results]
    /\ UNCHANGED <<clock, view, durable, conn, last, assigned, readVars>>

\* DELETE FROM LogAnalysisHistory WHERE timestamp < DATE('now', ?)
DeleteOlderEntries(table, cutoff) ==
    [table EXCEPT !.rows = SelectSeq(@, LAMBDA row : ~TextLess(row.timestamp, cutoff))]

\* the table delete_old_history leaves behind, and whether it met an error
DeletedOld(table, older_than_days, fault, reading) ==
    [table |-> IF fault = "none"
               THEN DeleteOlderEntries(table, DateNowMinus(reading, older_than_days))
               ELSE table,
     failed |-> fault # "none"]

\* delete_old_history, which handles no exception
DeleteOldHistory(m, older_than_days, fault) ==
    /\ older_than_days <= ClockReadings[clock].day
    /\ LET done == DeletedOld(history[m], older_than_days, fault, clock)
       IN  /\ history' = [history EXCEPT ![m] = done.table]
           /\ ret' = [raised |-> done.failed]
    /\ call' = [fn |-> "delete_old_history", module |-> m]
    /\ UNCHANGED <<clock, view, durable, conn, last, assigned, readVars>>

\* time passes until the next reading of the clock
Tick ==
    /\ clock < Len(ClockReadings)
    /\ clock' = clock + 1
    /\ UNCHANGED <<history, call, ret, view, durable, conn, last, assigned, readVars>>

NextHistory ==
    \/ \E m \in Modules, log_entry \in {LogEntry, None}, fault \in CommitFaults :
          StoreAnalysisResult(m, log_entry, RootCause, fault)
    \/ \E m \in Modules, batch_results \in ResultBatches, fault \in CommitFaults :
          StoreBatchAnalysisResults(m, batch_results, fault)
    \/ \E m \in Modules, d \in OlderThanDays, fault \in CommitFaults :
          DeleteOldHistory(m, d, fault)
    \/ Tick

SpecHistory == Init /\ [][NextHistory]_vars

\* Properties of the history table.

\* C12: fetch_history_by_id(id) returns the log_entry, root_cause and
\* timestamp of the entry stored under that id when there is one, and the
\* empty dictionary when there is none; it never returns the entry of another
\* id.
C12_FetchByIdFindsOrIsEmpty ==
    \A m \in Modules, log_id \in 0..(MaxEntries + 1) :
        LET got == FetchHistoryById(history[m], log_id)
            stored == {i \in 1..Len(history[m].rows) : history[m].rows[i].id = log_id}
        IN  IF stored = {} THEN got = EmptyDict
            ELSE \E i \in stored :
                     got = [log_entry |-> history[m].rows[i].log_entry,
                            root_cause |-> history[m].rows[i].root_cause,
                            timestamp |-> history[m].rows[i].timestamp]

\* the entry of id 1 was deleted and the entry of id 2 is stored: a lookup
\* that finds nothing and a lookup that finds an entry which is not the first
\* one ever stored
C12_Witness ==
    \E m \in Modules :
        /\ FetchHistoryById(history[m], 1) = EmptyDict
        /\ FetchHistoryById(history[m], 2) # EmptyDict
        /\ Len(history[m].rows) = 1

---------------------------------------------------------------------------
\* More properties of the store.

\* the limits that are not positive
NonPositiveLimits == {-1, 0}

\* C11: fetch_logs(limit, offset) with limit <= 0 is refused: it returns no
\* record, from LogProcessor / TestHistory and from LogCleaner alike.
C11_NonPositiveLimitReturnsNothing ==
    \A limit \in NonPositiveLimits, offset \in 0..MaxPage :
        /\ FetchLogs(view, limit, offset) = <<>>
        /\ CleanerFetchLogs(view, limit, offset) = <<>>

---------------------------------------------------------------------------
\* The filter: structure_data/structurer.py clean_logs.

\* keyword in message: the keyword is a substring of the message
Contains(message, keyword) ==
    \E i \in 0..(Len(message) - Len(keyword)) :
        SubSeq(message, i + 1, i + Len(keyword)) = keyword

\* str.lower() on ASCII text
Lower(s) == [i \in 1..Len(s) |-> IF s[i] >= 65 /\ s[i] <= 90 THEN s[i] + 32 ELSE s[i]]

\* str.upper() on ASCII text
Upper(s) == [i \in 1..Len(s) |-> IF s[i] >= 97 /\ s[i] <= 122 THEN s[i] - 32 ELSE s[i]]

\* any(keyword in log['message'] for keyword in exclude_keywords)
AnyKeyword(log, exclude_keywords) ==
    \E k \in 1..Len(exclude_keywords) : Contains(log.message, exclude_keywords[k])

\* log['log_level'] not in exclude_log_levels
LevelAllowed(log, exclude_log_levels) ==
    \A k \in 1..Len(exclude_log_levels) : log.log_level # exclude_log_levels[k]

\* a test that drops a record only when both the keyword and the level match
Keeps_unlessBoth(log, exclude_keywords, exclude_log_levels) ==
    ~AnyKeyword(log, exclude_keywords) \/ LevelAllowed(log, exclude_log_levels)

\* the condition of the list comprehension
Keeps(log, exclude_keywords, exclude_log_levels) ==
    ~AnyKeyword(log, exclude_keywords) /\ LevelAllowed(log, exclude_log_levels)

\* a filter that tests only the last keyword it is given
CleanLogs_lastKeywordOnly(logs, exclude_keywords, exclude_log_levels) ==
    SelectSeq(logs, LAMBDA log :
        Keeps(log, IF exclude_keywords = <<>> THEN <<>>
                   ELSE <<exclude_keywords[Len(exclude_keywords)]>>,
              exclude_log_levels))

\* clean_logs(logs, exclude_keywords, exclude_log_levels)
CleanLogs(logs, exclude_keywords, exclude_log_levels) ==
    SelectSeq(logs, LAMBDA log : Keeps(log, exclude_keywords, exclude_log_levels))

\* the texts of the filter's inputs: the keywords "db" and "k", the messages
\* "a db", "DB", "ok", and the levels of the store's inputs
KeywordDb == <<100, 98>>
KeywordK == <<107>>
FilterMessages == {<<97, 32, 100, 98>>, <<68, 66>>, <<111, 107>>}
FilterLevels == {LevelInfo, LevelError}
FilterRecords ==
    {[timestamp |-> TsNew, log_level |-> l, message |-> m] :
        l \in FilterLevels, m \in FilterMessages}

\* the calls of clean_logs: an argument that is left out takes its default None
CleanLogsCalls ==
    {[fn |-> "clean_logs", logs |-> logs, exclude_keywords |-> kws,
      exclude_log_levels |-> lvls] :
        logs \in SeqsUpTo(FilterRecords, MaxBatch),
        kws \in {<<>>, <<KeywordDb>>, <<KeywordK, KeywordDb>>},
        lvls \in {<<>>, <<LevelInfo>>}}
    \cup {[fn |-> "clean_logs", logs |-> logs] : logs \in SeqsUpTo(FilterRecords, 1)}

\* if exclude_keywords is None: exclude_keywords = []
Given(c, name) == IF name \in DOMAIN c THEN c[name] ELSE <<>>

\* clean_logs is called and returns
CleanLogsCall ==
    /\ call.fn = "clean_logs"
    /\ ret = NoCall
    /\ ret' = [fn |-> "clean_logs",
               value |-> CleanLogs(call.logs, Given(call, "exclude_keywords"),
                                   Given(call, "exclude_log_levels"))]
    /\ UNCHANGED <<call, history, clock, view, durable, conn, last, assigned, readVars>>

---------------------------------------------------------------------------
\* The parser: log_parsing/parser.py parse_log.  The timestamp pattern
\* \d{4}-\d{2}-\d{2} \d{2}:\d{2}:\d{2} is scaled to \d{2} \d as the timestamps
\* are.  The lists ip_addresses and error_codes, which findall computes from
\* the text, are left out of the record.

LevelWarning == <<87, 65, 82, 78, 73, 78, 71>>
LevelUnknown == <<85, 78, 75, 78, 79, 87, 78>>

\* the alternatives of (ERROR|WARNING|INFO)
Severities == {LevelError, LevelWarning, LevelInfo}

\* the text p stands in s at position at
StartsWith(s, p, at) ==
    at + Len(p) - 1 <= Len(s) /\ SubSeq(s, at, at + Len(p) - 1) = p

\* the last position (.+) reaches from `from`: the dot matches no newline
EndOfLine(s, from) ==
    LET nl == {i \in from..Len(s) : s[i] = 10}
    IN  IF nl = {} THEN Len(s) ELSE (CHOOSE i \in nl : \A j \in nl : i <= j) - 1

NoMatch == [ok |-> FALSE]

\* (ERROR|WARNING|INFO):\s(.+) matched at position `at`
MatchSeverity(s, at) ==
    LET levels == {l \in Severities : StartsWith(s, l \o <<58>>, at)}
    IN  IF levels = {} THEN NoMatch
        ELSE LET level == CHOOSE l \in levels : TRUE
                 from == at + Len(level) + 2
             IN  IF from <= Len(s) /\ IsSpace(s[from - 1]) /\ s[from] # 10
                 THEN [ok |-> TRUE, level |-> level,
                       message |-> SubSeq(s, from, EndOfLine(s, from))]
                 ELSE NoMatch

\* (\d{2} \d)\s at the start of the line
HasTimestamp(s) ==
    /\ Len(s) >= 5
    /\ IsDigit(s[1]) /\ IsDigit(s[2]) /\ s[3] = 32 /\ IsDigit(s[4])
    /\ IsSpace(s[5])

\* a fallback that keeps the line as it is
Fallback_unstripped(log_entry) ==
    [timestamp |-> TsUnknown, level |-> LevelUnknown, message |-> log_entry]

\* the record for a line that does not match the pattern
Fallback(log_entry) ==
    [timestamp |-> TsUnknown, level |-> LevelUnknown, message |-> Strip(log_entry)]

\* parse_log(log_entry): the optional timestamp group is tried first
ParseLog(log_entry) ==
    LET stamped == IF HasTimestamp(log_entry) THEN MatchSeverity(log_entry, 6) ELSE NoMatch
        bare == MatchSeverity(log_entry, 1)
    IN  IF stamped.ok
        THEN [timestamp |-> SubSeq(log_entry, 1, 4), level |-> stamped.level,
              message |-> Strip(stamped.message)]
        ELSE IF bare.ok
        THEN [timestamp |-> TsUnknown, level |-> bare.level,
              message |-> Strip(bare.message)]
        ELSE Fallback(log_entry)

\* the lines handed to parse_log: a start ("", "09 0 ", "09 0", " "), a word
\* ("ERROR", "WARNING", "INFO", "DEBUG", ""), a separator (":", ": ", ":  ",
\* ":" and a tab, "") and an end ("", "m", "m ", " " and a newline, a newline
\* and "m")
LineStarts == {<<>>, <<48, 57, 32, 48, 32>>, <<48, 57, 32, 48>>, <<32>>}
LineWords == Severities \cup {<<68, 69, 66, 85, 71>>, <<>>}
LineSeparators == {<<58>>, <<58, 32>>, <<58, 32, 32>>, <<58, 9>>, <<>>}
LineEnds == {<<>>, <<109>>, <<109, 32>>, <<32, 10>>, <<10, 109>>}
LogEntries ==
    {a \o w \o s \o e : a \in LineStarts, w \in LineWords, s \in LineSeparators,
                        e \in LineEnds}

ParseLogCalls == {[fn |-> "parse_log", log_entry |-> l] : l \in LogEntries}

\* parse_log is called and returns
ParseLogCall ==
    /\ call.fn = "parse_log"
    /\ ret = NoCall
    /\ ret' = [fn |-> "parse_log", value |-> ParseLog(call.log_entry)]
    /\ UNCHANGED <<call, history, clock, view, durable, conn, last, assigned, readVars>>

\* The pure functions, each applied once to arguments drawn from its inputs.
InitPure ==
    /\ view = EmptyDb
    /\ durable = EmptyDb
    /\ conn = "none"
    /\ last = [op |-> "connect", n |-> 0, before |-> 0, raised |-> FALSE]
    /\ assigned = {}
    /\ file = <<>>
    /\ pos = 0
    /\ chunk = <<>>
    /\ chunk_size = 1
    /\ yielded = <<>>
    /\ pc = "IDLE"
    /\ history = [m \in Modules |-> EmptyHistory]
    /\ clock = 1
    /\ call \in CleanLogsCalls \cup ParseLogCalls
    /\ ret = NoCall

NextPure ==
    \/ CleanLogsCall
    \/ ParseLogCall

SpecPure == InitPure /\ [][NextPure]_vars

\* Properties of the filter and the parser.

\* the record is excluded by its level / by a keyword in its message
LevelExcluded(log, levels) == \E k \in 1..Len(levels) : levels[k] = log.log_level
KeywordExcluded(log, keywords) ==
    \E k \in 1..Len(keywords) :
        \E before, after \in 0..Len(log.message) :
            /\ before + Len(keywords[k]) + after = Len(log.message)
            /\ \A i \in 1..Len(keywords[k]) : log.message[before + i] = keywords[k][i]

\* the arguments of the clean_logs call
CallKeywords == Given(call, "exclude_keywords")
CallLevels == Given(call, "exclude_log_levels")

\* C13: clean_logs drops a record if and only if its level is an excluded
\* level or its message contains an excluded keyword; what it returns is the
\* records that match neither test, in the order of the input and unchanged.
C13_DropsIffEitherTestMatches ==
    ret # NoCall /\ ret.fn = "clean_logs" =>
        LET logs == call.logs
            keep == {i \in 1..Len(logs) :
                        ~(LevelExcluded(logs[i], CallLevels)
                          \/ KeywordExcluded(logs[i], CallKeywords))}
            nth(j) == CHOOSE i \in keep : Cardinality({x \in keep : x <= i}) = j
        IN  /\ Len(ret.value) = Cardinality(keep)
            /\ \A j \in 1..Len(ret.value) : ret.value[j] = logs[nth(j)]

\* two records are dropped, one for its level alone and one for a keyword alone
C13_Witness ==
    /\ ret # NoCall /\ ret.fn = "clean_logs"
    /\ Len(call.logs) = 2 /\ ret.value = <<>>
    /\ LevelExcluded(call.logs[1], CallLevels)
    /\ ~KeywordExcluded(call.logs[1], CallKeywords)
    /\ KeywordExcluded(call.logs[2], CallKeywords)
    /\ ~LevelExcluded(call.logs[2], CallLevels)

\* C14: clean_logs drops every record whose message contains an excluded
\* keyword in any letter case.
C14_KeywordMatchIgnoresCase ==
    ret # NoCall /\ ret.fn = "clean_logs" =>
        \A i \in 1..Len(call.logs), k \in 1..Len(CallKeywords) :
            Contains(Lower(call.logs[i].message), Lower(CallKeywords[k]))
                => \A j \in 1..Len(ret.value) : ret.value[j] # call.logs[i]

\* C15: for the records and criteria of a clean_logs call, one more excluded
\* keyword or one more excluded level never gives more kept records, and the
\* records kept under the larger criteria are among those kept under the
\* smaller.
C15_FilterIsMonotone ==
    ret # NoCall /\ ret.fn = "clean_logs" =>
        \A keyword \in {KeywordDb, KeywordK}, level \in FilterLevels :
            \A more \in {CleanLogs(call.logs, Append(CallKeywords, keyword), CallLevels),
                         CleanLogs(call.logs, CallKeywords, Append(CallLevels, level))} :
                /\ Len(more) <= Len(ret.value)
                /\ \A j \in 1..Len(more) : \E i \in 1..Len(ret.value) : ret.value[i] = more[j]

\* a call that keeps records of which one more keyword drops some
C15_Witness ==
    /\ ret # NoCall /\ ret.fn = "clean_logs"
    /\ Len(ret.value) = 2
    /\ Len(CleanLogs(call.logs, Append(CallKeywords, KeywordDb), CallLevels)) = 1

\* the line matches (?:(\d{2} \d)\s)?(ERROR|WARNING|INFO):\s(.+) at its start
MatchesPattern(line) ==
    \E start \in IF HasTimestamp(line) THEN {<<>>, SubSeq(line, 1, 5)} ELSE {<<>>} :
        \E level \in Severities :
            LET head == start \o level \o <<58>>
            IN  /\ Len(line) >= Len(head) + 2
                /\ SubSeq(line, 1, Len(head)) = head
                /\ IsSpace(line[Len(head) + 1])
                /\ line[Len(head) + 2] # 10

\* C16: parse_log returns a record for every line, and for a line that does
\* not match the pattern the record has the level UNKNOWN, the timestamp
\* "N/A" and the line without its leading and trailing whitespace as message.
C16_ParseLogIsTotal ==
    ret # NoCall /\ ret.fn = "parse_log" =>
        /\ DOMAIN ret.value = {"timestamp", "level", "message"}
        /\ ~MatchesPattern(call.log_entry) =>
               /\ ret.value.level = LevelUnknown
               /\ ret.value.timestamp = TsUnknown
               /\ IsStripOf(ret.value.message, call.log_entry)

\* a line that does not match and that has whitespace to strip
C16_Witness ==
    /\ ret # NoCall /\ ret.fn = "parse_log"
    /\ ~MatchesPattern(call.log_entry)
    /\ ret.value.message # <<>>
    /\ ret.value.message # call.log_entry

\* C17: the level parse_log returns is ERROR, WARNING, INFO or UNKNOWN, and
\* the message it returns is empty only for a line that is empty (here: that
\* has nothing but whitespace).
C17_LevelSetAndMessageNonEmpty ==
    ret # NoCall /\ ret.fn = "parse_log" =>
        /\ ret.value.level \in Severities \cup {LevelUnknown}
        /\ ret.value.message = <<>> => Strip(call.log_entry) = <<>>

---------------------------------------------------------------------------
\* The runs: LogAnalysis.process_log_file and LogParser.parse_logs, each over
\* a log file.

InitRuns ==
    /\ view = EmptyDb
    /\ durable = EmptyDb
    /\ conn = "LogProcessor"
    /\ last = [op |-> "connect", n |-> 0, before |-> 0, raised |-> FALSE]
    /\ assigned = {}
    /\ file \in LogFiles
    /\ chunk_size \in 1..MaxChunk
    /\ pos = 0
    /\ chunk = <<>>
    /\ yielded = <<>>
    /\ pc \in {"IDLE", "parsing"}
    /\ history = [m \in Modules |-> EmptyHistory]
    /\ clock = 1
    /\ call = NoCall
    /\ ret = NoCall

NextRuns ==
    \/ ProcessStart
    \/ \E fault \in CommitFaults : ProcessLine(fault)
    \/ \E fault \in CommitFaults : ProcessEnd(fault)
    \/ ProcessReadError
    \/ ParseLogsLine
    \/ ParseLogsEnd
    \/ ParseLogsError

SpecRuns == InitRuns /\ [][NextRuns]_vars

\* Properties of the runs.

\* the call has ended by raising its error to the caller
ErrorReachesCaller == pc \in {"FAILED", "raised"}

\* the step is one on which the reader or the store fails
ErrorStep ==
    \/ ProcessReadError
    \/ ParseLogsError
    \/ \E fault \in CommitFaults \ {"none"} : ProcessLine(fault) \/ ProcessEnd(fault)

\* C18: a run moves only from IDLE to RUNNING and from RUNNING to COMPLETED
\* or FAILED, and stays in COMPLETED and in FAILED; it is COMPLETED only when
\* the file is read to its end and every batch is committed; and a step on
\* which the reader or the store fails ends the run with the error raised to
\* the caller.
C18_RunStatesAndErrorsReported ==
    [][/\ pc = "IDLE" => pc' \in {"IDLE", "RUNNING"}
       /\ pc = "RUNNING" => pc' \in {"RUNNING", "COMPLETED", "FAILED"}
       /\ pc \in {"COMPLETED", "FAILED"} => pc' = pc
       /\ pc' = "COMPLETED" =>
              /\ pos' = Len(file) /\ chunk' = <<>>
              /\ Columns(durable'.rows) = Flatten(yielded')
       /\ ErrorStep => ErrorReachesCaller']_vars

\* the records of the lines first..last of the file
ParsedLines(first, last_line) ==
    LET f[k \in (first - 1)..last_line] ==
            IF k < first THEN <<>> ELSE f[k - 1] \o ParsedLine(file[k])
    IN  f[last_line]

\* C19: a run that completes has committed one batch per chunk of chunk_size
\* lines, in source order: the k-th batch is the records of the k-th chunk of
\* lines, there are as many commits as chunks of lines (5 lines in chunks of 2
\* give 3), and the stored records are the records of the lines in source
\* order.
C19_OneCommitPerChunkInSourceOrder ==
    pc = "COMPLETED" =>
        /\ Len(yielded) = (Len(file) + chunk_size - 1) \div chunk_size
        /\ \A k \in 1..Len(yielded) :
               yielded[k] = ParsedLines((k - 1) * chunk_size + 1,
                                        Min(Len(file), k * chunk_size))
        /\ Columns(durable.rows) = ParsedLines(1, Len(file))

\* C20: what a reader on another connection can see is the committed table,
\* and an insert_logs call changes it by nothing or by the whole of its batch:
\* the reader never comes to see a part of a batch, also not of one that failed.
C20_ReadersSeeWholeBatches ==
    [][last'.op = "insert_logs" =>
          Cardinality(Ids(durable') \ Ids(durable)) \in {0, last'.n}]_vars

---------------------------------------------------------------------------
\* The cleaning calls on a store that holds records: LogCleaner's
\* clean_logs_in_batches and remove_irrelevant_logs (log_parsing/cleaner.py)
\* and LogProcessor.clean_logs (main.py).  During clean_logs_in_batches `pos`
\* is its offset, `chunk_size` its batch_size and `yielded` the pages it has
\* fetched.

\* "debug", the word filter_logs looks for, and the texts "ok", "0", "1"
Debug == <<100, 101, 98, 117, 103>>
KeywordOk == <<111, 107>>
TextZero == <<48>>
TextOne == <<49>>

\* the condition of filter_logs on one record
FilterKeeps(log) ==
    ~Contains(Lower(log.message), Debug) /\ Upper(log.log_level) # LevelInfo

\* LogCleaner.filter_logs
FilterLogs(logs) == SelectSeq(logs, FilterKeeps)

\* SQLite's  text LIKE pattern : % matches any run of characters, _ any one
\* character, and letters match without regard to ASCII case
RECURSIVE Like(_, _)
Like(text, pattern) ==
    IF pattern = <<>> THEN text = <<>>
    ELSE IF pattern[1] = 37
         THEN Like(text, Tail(pattern)) \/ (text # <<>> /\ Like(Tail(text), pattern))
    ELSE IF text = <<>> THEN FALSE
    ELSE /\ pattern[1] = 95 \/ Lower(<<text[1]>>) = Lower(<<pattern[1]>>)
         /\ Like(Tail(text), Tail(pattern))

\* SQLite's truth value of a text operand of OR: the number its leading digits
\* spell (after spaces and a sign) is not zero
Truthy(text) ==
    LET blanks == {i \in 1..Len(text) : \A j \in 1..i : text[j] = 32}
        signs == {i \in 1..Len(text) : i - 1 = Cardinality(blanks) /\ text[i] \in {43, 45}}
        from == Cardinality(blanks) + Cardinality(signs) + 1
        digits == {i \in from..Len(text) : \A j \in from..i : IsDigit(text[j])}
    IN  \E i \in digits : text[i] # 48

\* "%" + keyword + "%"
Wrapped(keyword) == <<37>> \o keyword \o <<37>>

\* the stored records the cleaning calls are tried on
CleanRecords ==
    {[timestamp |-> TsNew, log_level |-> LevelError, message |-> KeywordOk],
     [timestamp |-> TsNew, log_level |-> LevelInfo, message |-> KeywordOk],
     [timestamp |-> TsOld, log_level |-> LevelError, message |-> <<68>> \o Tail(Debug)],
     [timestamp |-> TsOld, log_level |-> LevelError, message |-> <<97, 32>> \o Debug],
     [timestamp |-> TsOld, log_level |-> LevelError, message |-> TextZero]}

\* the arguments the cleaning calls are given
KeywordLists == {<<>>, <<Debug>>, <<KeywordOk, Debug>>, <<TextOne, Debug>>}
LevelLists == {<<>>, <<LevelInfo>>}
BatchSizes == -1..MaxBatch

\* WHERE (message LIKE ? OR ...) OR (log_level = ? OR ...), the keywords bound
\* as %keyword%
Irrelevant(r, keywords, log_levels) ==
    \/ \E k \in 1..Len(keywords) : Like(r.message, Wrapped(keywords[k]))
    \/ \E k \in 1..Len(log_levels) : r.log_level = log_levels[k]

\* DELETE FROM logs WHERE ... of remove_irrelevant_logs
DeleteIrrelevant(db, keywords, log_levels) ==
    [db EXCEPT !.rows =
        SelectSeq(db.rows, LAMBDA r : ~Irrelevant(r, keywords, log_levels))]

\* LogCleaner.remove_irrelevant_logs: with no keyword or no level the query
\* holds an empty pair of parentheses and execute raises on its syntax
RemoveIrrelevantLogs(keywords, log_levels, fault) ==
    /\ conn = "LogCleaner"
    /\ pc # "cleaning"
    /\ LET syntax_error == keywords = <<>> \/ log_levels = <<>>
       IN  /\ syntax_error => fault = "none"
           /\ Commit("remove_irrelevant_logs", 0,
                     IF syntax_error THEN view
                     ELSE DeleteIrrelevant(view, keywords, log_levels),
                     syntax_error, fault)
    /\ UNCHANGED <<conn, file, pos, chunk, chunk_size, yielded, pc>>
    /\ UNCHANGED otherVars

\* the operand of  message LIKE ( ? OR ? ... ) : one keyword is the pattern
\* itself, several are OR-ed to the number 0 or 1, which LIKE reads as text
LikeOperand(exclude_keywords) ==
    IF Len(exclude_keywords) = 1 THEN exclude_keywords[1]
    ELSE IF \E k \in 1..Len(exclude_keywords) : Truthy(exclude_keywords[k])
         THEN TextOne ELSE TextZero

\* WHERE log_level IN (?, ...) OR message LIKE ( ? OR ... )
Excluded(r, exclude_keywords, exclude_log_levels) ==
    \/ \E k \in 1..Len(exclude_log_levels) : r.log_level = exclude_log_levels[k]
    \/ Like(r.message, LikeOperand(exclude_keywords))

\* DELETE FROM logs WHERE ... of clean_logs
DeleteExcluded(db, exclude_keywords, exclude_log_levels) ==
    [db EXCEPT !.rows =
        SelectSeq(db.rows,
                  LAMBDA r : ~Excluded(r, exclude_keywords, exclude_log_levels))]

\* LogProcessor.clean_logs: with no keyword the query reads LIKE () and
\* execute raises on its syntax
LogProcessorCleanLogs(exclude_keywords, exclude_log_levels, fault) ==
    /\ conn = "LogProcessor"
    /\ pc # "cleaning"
    /\ LET syntax_error == exclude_keywords = <<>>
       IN  /\ syntax_error => fault = "none"
           /\ Commit("clean_logs", 0,
                     IF syntax_error THEN view
                     ELSE DeleteExcluded(view, exclude_keywords, exclude_log_levels),
                     syntax_error, fault)
    /\ UNCHANGED <<conn, file, pos, chunk, chunk_size, yielded, pc>>
    /\ UNCHANGED otherVars

\* LogCleaner.clean_logs_in_batches is called: offset = 0
CleanStart(batch_size) ==
    /\ conn = "LogCleaner"
    /\ pc # "cleaning"
    /\ pc' = "cleaning"
    /\ pos' = 0
    /\ chunk_size' = batch_size
    /\ yielded' = <<>>
    /\ NoOp("clean_logs_in_batches")
    /\ UNCHANGED <<conn, file, chunk>>
    /\ UNCHANGED otherVars

\* one round of the loop on a page that is not empty: fetch, filter, re-insert
\* what the filter keeps, move the offset; an error of the re-insertion leaves
\* the call
CleanBatch(fault) ==
    /\ pc = "cleaning"
    /\ Len(yielded) <= MaxId
    /\ LET logs == CleanerFetchLogs(view, chunk_size, pos)
       IN  /\ logs # <<>>
           /\ Reinserted(FilterLogs(logs), fault)
           /\ yielded' = Append(yielded, logs)
    /\ pc' = IF fault = "none" THEN "cleaning" ELSE "raised"
    /\ pos' = IF fault = "none" THEN pos + chunk_size ELSE pos
    /\ UNCHANGED <<conn, file, chunk, chunk_size>>
    /\ UNCHANGED otherVars

\* the page is empty: break
CleanEnd ==
    /\ pc = "cleaning"
    /\ CleanerFetchLogs(view, chunk_size, pos) = <<>>
    /\ pc' = "cleaned"
    /\ UNCHANGED <<view, durable, conn, last, assigned, file, pos, chunk,
                   chunk_size, yielded>>
    /\ UNCHANGED otherVars

\* a store that holds records already, its cleaner connected
InitCleaning ==
    /\ \E logs \in SeqsUpTo(CleanRecords, MaxId) :
          /\ view = InsertMany(EmptyDb, logs, Len(logs))
          /\ durable = view
    /\ conn = "LogCleaner"
    /\ last = [op |-> "connect", n |-> 0, before |-> Len(view.rows), raised |-> FALSE]
    /\ assigned = Ids(view)
    /\ file = <<>>
    /\ pos = 0
    /\ chunk = <<>>
    /\ chunk_size = 1
    /\ yielded = <<>>
    /\ pc = "IDLE"
    /\ history = [m \in Modules |-> EmptyHistory]
    /\ clock = 1
    /\ call = NoCall
    /\ ret = NoCall

NextCleaning ==
    \/ \E batch_size \in BatchSizes : CleanStart(batch_size)
    \/ \E fault \in CommitFaults : CleanBatch(fault)
    \/ CleanEnd
    \/ \E keywords \in KeywordLists, log_levels \in LevelLists :
          RemoveIrrelevantLogs(keywords, log_levels, "none")
    \/ \E keywords \in KeywordLists, log_levels \in LevelLists :
          LogProcessorCleanLogs(keywords, log_levels, "none")
    \/ \E c \in {"LogProcessor", "LogCleaner"} : pc # "cleaning" /\ Connect(c)

SpecCleaning == InitCleaning /\ [][NextCleaning]_vars

---------------------------------------------------------------------------
\* Properties of the cleaning calls.

\* the records of every page fetched so far, in the order fetched
Fetched == Flatten(yielded)

\* the id and the three text columns of a stored row
Stored(r) ==
    [id |-> r.id, timestamp |-> r.timestamp, log_level |-> r.log_level,
     message |-> r.message]

\* C21: clean_logs_in_batches (batch_size >= 1) removes rows and never
\* rewrites them: when it returns no stored record is one filter_logs rejects,
\* every stored record is as it was fetched, and no round of the loop wrote a
\* record to the table.
C21_CleaningRemovesAndNeverRewrites ==
    [][pc = "cleaning" /\ chunk_size >= 1 =>
          /\ pc' = "cleaned" =>
                /\ \A i \in 1..Len(view'.rows) : FilterKeeps(view'.rows[i])
                /\ \A i \in 1..Len(view'.rows) :
                      \E j \in 1..Len(Fetched) : Fetched[j] = Stored(view'.rows[i])
          /\ pc' = "cleaning" =>
                ~(last'.op = "reinsert_logs" /\ last'.n > 0)]_vars

\* C29: clean_logs_in_batches ends for every batch_size: each round of the loop
\* moves the offset by batch_size, the re-insertion neither adds rows nor moves
\* them, no round fetches a record an earlier round fetched (so the rounds are
\* at most as many as the records, whatever batch_size is), and with
\* batch_size >= 1 the call returns when every stored record has been fetched
\* once.
C29_CleaningTerminates ==
    [][pc = "cleaning" =>
          /\ pc' = "cleaning" =>
                /\ pos' = pos + chunk_size
                /\ [i \in 1..Len(view'.rows) |-> view'.rows[i].id]
                      = [i \in 1..Len(view.rows) |-> view.rows[i].id]
                /\ \A i, j \in 1..Len(Fetched') : Fetched'[i].id = Fetched'[j].id => i = j
          /\ pc' = "cleaned" /\ chunk_size >= 1 =>
                [i \in 1..Len(Fetched) |-> Fetched[i].id]
                   = [i \in 1..Len(view.rows) |-> view.rows[i].id]]_vars

\* the records a literal test of the arguments keeps: the level is not one of
\* the levels and the message contains none of the keywords
LiterallyKept(rows, keywords, log_levels) ==
    SelectSeq(rows, LAMBDA r : Keeps(r, keywords, log_levels))

\* C24: after LogProcessor.clean_logs the store holds exactly the records it
\* held whose level is not excluded and whose message contains no excluded
\* keyword, for any number of keywords.
C24_CleanLogsRemovesExactlyTheExcluded ==
    [][\A keywords \in KeywordLists, log_levels \in LevelLists :
          last'.op = "clean_logs" /\ LogProcessorCleanLogs(keywords, log_levels, "none")
             => view'.rows = LiterallyKept(view.rows, keywords, log_levels)]_vars

\* C25: remove_irrelevant_logs removes only the records whose message contains
\* a keyword as written or whose level is listed and leaves the others as they
\* were; with an empty keyword list or an empty level list it returns without
\* an error and applies the other test alone.
C25_RemovesOnlyTheIrrelevant ==
    [][\A keywords \in KeywordLists, log_levels \in LevelLists :
          last'.op = "remove_irrelevant_logs"
          /\ RemoveIrrelevantLogs(keywords, log_levels, "none")
             => /\ ~last'.raised
                /\ view'.rows = LiterallyKept(view.rows, keywords, log_levels)]_vars

---------------------------------------------------------------------------
\* More properties of the history table.

\* every result of the batch has both keys and neither value is None
WellFormed(batch_results) ==
    \A i \in 1..Len(batch_results) :
        /\ {"log", "root_cause"} \subseteq DOMAIN batch_results[i]
        /\ NotNull(batch_results[i].log, batch_results[i].root_cause)

\* C26: store_batch_analysis_results stores the batch in one transaction: the
\* entries stored before stay, and after the call either every result of the
\* batch is a new entry or none is; a batch with a malformed result, or one
\* whose insert or commit fails, leaves the table and its count as they were.
C26_BatchOfResultsIsAtomic ==
    [][\A fault \in CommitFaults :
          /\ call'.fn = "store_batch_analysis_results"
          /\ StoreBatchAnalysisResults(call'.module, call'.batch_results, fault)
          => LET batch_results == call'.batch_results
                 before == history[call'.module].rows
                 after == history'[call'.module].rows
                 added == SubSeq(after, Len(before) + 1, Len(after))
                 failed == fault # "none" \/ ~WellFormed(batch_results)
             IN  /\ Len(after) >= Len(before)
                 /\ SubSeq(after, 1, Len(before)) = before
                 /\ failed => after = before
                 /\ ~failed =>
                       /\ Len(added) = Len(batch_results)
                       /\ \A i \in 1..Len(added) :
                             /\ added[i].log_entry = batch_results[i].log
                             /\ added[i].root_cause = batch_results[i].root_cause]_vars

\* db_setup refused a batch whose second result holds no log, after the first
\* result had gone in, and the table holds no entry
C26_Witness ==
    /\ call.fn = "store_batch_analysis_results"
    /\ call.module = "db_setup"
    /\ call.batch_results = <<GoodResult, NullResult>>
    /\ ret.raised
    /\ history["db_setup"].rows = <<>>

\* C28: after delete_old_history(older_than_days = d) no entry created more
\* than d days before now remains, the entries created earlier on the day of
\* the cutoff instant included, and every entry created less than d days
\* before now remains.
C28_DeletesExactlyTheOlderEntries ==
    [][\A m \in Modules, d \in OlderThanDays :
          /\ call'.fn = "delete_old_history"
          /\ call'.module = m
          /\ DeleteOldHistory(m, d, "none")
          => LET now == Instant(ClockReadings[clock])
                 Age(row) == now - Instant(ParseTimestamp(row.timestamp))
                 Remains(row) ==
                     \E j \in 1..Len(history'[m].rows) : history'[m].rows[j] = row
             IN  \A i \in 1..Len(history[m].rows) :
                     LET row == history[m].rows[i]
                     IN  /\ Age(row) > d * HoursPerDay => ~Remains(row)
                         /\ Age(row) < d * HoursPerDay => Remains(row)]_vars

---------------------------------------------------------------------------
\* The two history modules side by side: each call is made to db_setup and to
\* history_manager, on tables that start out empty, under the same reading of
\* the clock and the same fault.  Here `ret` holds what each module reports.

\* fetch_all_history's default limit in db_setup; history_manager has no limit
DefaultLimit == 1000

\* fetch_all_history(): the id and the three columns of every row, in rowid
\* order, LIMIT ? in db_setup
FetchAllHistory(m, table) ==
    LET n == IF m = "db_setup" THEN Min(Len(table.rows), DefaultLimit)
             ELSE Len(table.rows)
    IN  [i \in 1..n |->
            [id |-> table.rows[i].id, log_entry |-> table.rows[i].log_entry,
             root_cause |-> table.rows[i].root_cause,
             timestamp |-> table.rows[i].timestamp]]

\* except Exception: db_setup logs and raises again, history_manager logs
Raises_store(m, failed) == failed /\ m = "db_setup"

BothStoreAnalysisResult(log_entry, root_cause, fault) ==
    /\ \A m \in Modules : history[m].seq < MaxEntries
    /\ LET done == [m \in Modules |->
                       StoredResult(history[m], log_entry, root_cause, fault, clock)]
       IN  /\ history' = [m \in Modules |-> done[m].table]
           /\ ret' = [m \in Modules |-> [raised |-> Raises_store(m, done[m].failed)]]
    /\ call' = [fn |-> "store_analysis_result", module |-> "both"]
    /\ UNCHANGED <<clock, view, durable, conn, last, assigned, readVars>>

BothStoreBatchAnalysisResults(batch_results, fault) ==
    /\ \A m \in Modules : history[m].seq + Len(batch_results) <= MaxEntries
    /\ LET done == [m \in Modules |->
                       StoredBatch(history[m], batch_results, fault, clock)]
       IN  /\ history' = [m \in Modules |-> done[m].table]
           /\ ret' = [m \in Modules |-> [raised |-> Raises_store(m, done[m].failed)]]
    /\ call' = [fn |-> "store_batch_analysis_results", module |-> "both"]
    /\ UNCHANGED <<clock, view, durable, conn, last, assigned, readVars>>

BothDeleteOldHistory(older_than_days, fault) ==
    /\ older_than_days <= ClockReadings[clock].day
    /\ LET done == [m \in Modules |->
                       DeletedOld(history[m], older_than_days, fault, clock)]
       IN  /\ history' = [m \in Modules |-> done[m].table]
           /\ ret' = [m \in Modules |-> [raised |-> done[m].failed]]
    /\ call' = [fn |-> "delete_old_history", module |-> "both"]
    /\ UNCHANGED <<clock, view, durable, conn, last, assigned, readVars>>

NextBoth ==
    \/ \E log_entry \in {LogEntry, RootCause, None}, fault \in CommitFaults :
          BothStoreAnalysisResult(log_entry, RootCause, fault)
    \/ \E batch_results \in ResultBatches, fault \in CommitFaults :
          BothStoreBatchAnalysisResults(batch_results, fault)
    \/ \E d \in OlderThanDays, fault \in CommitFaults : BothDeleteOldHistory(d, fault)
    \/ Tick

SpecBoth == Init /\ [][NextBoth]_vars

\* C27: db_setup and history_manager implement one set of contracts: after the
\* same calls on the same table fetch_all_history and fetch_history_by_id
\* return the same in both, and both report a failure of the storage to the
\* caller in the same way.
C27_ModulesAgree ==
    /\ FetchAllHistory("db_setup", history["db_setup"])
          = FetchAllHistory("history_manager", history["history_manager"])
    /\ \A log_id \in 0..(MaxEntries + 1) :
          FetchHistoryById(history["db_setup"], log_id)
             = FetchHistoryById(history["history_manager"], log_id)
    /\ call.fn # "none" => ret["db_setup"] = ret["history_manager"]

---------------------------------------------------------------------------
\* More properties of the pipeline.

\* the line, stripped, has at least three fields separated by single spaces:
\* it holds two spaces or more
HasThreeFields(line) ==
    Cardinality({i \in 1..Len(Strip(line)) : Strip(line)[i] = 32}) >= 2

---------------------------------------------------------------------------
\* The counters of LogParser (log_parsing/test_parser.py).  parse_logs hands
\* its batches to process_batch, which parses each entry as JSON and keeps the
\* entries of level ERROR or WARNING; the object's total_logs and
\* filtered_logs are a function of the batches handed over so far, which
\* `yielded` holds.

\* the lines of a JSON log: {"level":"ERROR"}, {"level":"INFO"} and "ab"
JsonOpen == <<123, 34, 108, 101, 118, 101, 108, 34, 58, 34>>
JsonClose == <<34, 125>>
JsonLines ==
    {JsonOpen \o LevelError \o JsonClose \o <<10>>,
     JsonOpen \o LevelInfo \o JsonClose \o <<10>>,
     <<97, 98, 10>>}
JsonFiles == SeqsUpTo(JsonLines, MaxLines)

\* json.loads(log_entry) and log_data.get("level") on a text of the form
\* {"level":"..."}; any other text of the inputs is not JSON and raises
JsonLevel(log_entry) ==
    LET n == Len(log_entry)
        inner == SubSeq(log_entry, Len(JsonOpen) + 1, n - Len(JsonClose))
    IN  IF /\ n >= Len(JsonOpen) + Len(JsonClose)
           /\ StartsWith(log_entry, JsonOpen, 1)
           /\ SubSeq(log_entry, n - Len(JsonClose) + 1, n) = JsonClose
           /\ \A i \in 1..Len(inner) : inner[i] # 34
        THEN [ok |-> TRUE, level |-> inner]
        ELSE [ok |-> FALSE, level |-> None]

\* parse_log_entry: the record of an entry of level ERROR or WARNING, None for
\* any other entry and for an entry json.loads raises on
ParseLogEntry(log_entry) ==
    LET log_data == JsonLevel(log_entry)
    IN  IF log_data.ok /\ log_data.level \in {LevelError, LevelWarning}
        THEN [timestamp |-> None, level |-> log_data.level, message |-> None]
        ELSE None

\* LogParser.__init__: total_logs = 0, filtered_logs = []
NewLogParser == [total_logs |-> 0, filtered_logs |-> <<>>]

\* process_batch(batch) on the object
ProcessBatch(self, batch) ==
    LET f[k \in 0..Len(batch)] ==
            IF k = 0 THEN self
            ELSE LET parsed_log == ParseLogEntry(batch[k])
                 IN  IF parsed_log # None
                     THEN [total_logs |-> f[k - 1].total_logs + 1,
                           filtered_logs |-> Append(f[k - 1].filtered_logs, parsed_log)]
                     ELSE f[k - 1]
    IN  f[Len(batch)]

\* the object after the batches handed to process_batch
Processed(batches) ==
    LET f[k \in 0..Len(batches)] ==
            IF k = 0 THEN NewLogParser ELSE ProcessBatch(f[k - 1], batches[k])
    IN  f[Len(batches)]

\* get_stats()
GetStats(self) ==
    [total_logs_processed |-> self.total_logs,
     filtered_logs |-> Len(self.filtered_logs)]

InitParser ==
    /\ view = EmptyDb
    /\ durable = EmptyDb
    /\ conn = "none"
    /\ last = [op |-> "connect", n |-> 0, before |-> 0, raised |-> FALSE]
    /\ assigned = {}
    /\ file \in JsonFiles
    /\ chunk_size \in 1..MaxChunk
    /\ pos = 0
    /\ chunk = <<>>
    /\ yielded = <<>>
    /\ pc = "parsing"
    /\ history = [m \in Modules |-> EmptyHistory]
    /\ clock = 1
    /\ call = NoCall
    /\ ret = NoCall

NextParser ==
    \/ ParseLogsLine
    \/ ParseLogsEnd
    \/ ParseLogsError

SpecParser == InitParser /\ [][NextParser]_vars

\* C22: when a run has completed its counters say what happened: the total of
\* lines processed is the number of lines of the source, every line read was
\* parsed, and the records kept and the records dropped add up to it; the
\* count of kept records is the number of records the run kept.
C22_CountersSayWhatHappened ==
    pc = "parsed" =>
        LET stats == GetStats(Processed(yielded))
            kept == {i \in 1..Len(file) : ParseLogEntry(Strip(file[i])) # None}
        IN  /\ stats.total_logs_processed = Len(file)
            /\ stats.filtered_logs = Cardinality(kept)
            /\ stats.filtered_logs + (Len(file) - Cardinality(kept))
                  = stats.total_logs_processed

---------------------------------------------------------------------------
\* The program of main.py from end to end: process_log_file, then clean_logs
\* with the program's own criteria, then the export (which only reads), and
\* close() whether or not an error was met.

\* the lines of scenario 1, scaled: "09 0 ERROR: m\n", "INFO: m\n" and a line
\* of no recognised format, "ab c d\n"
ScenarioLines ==
    {<<48, 57, 32, 48, 32>> \o LevelError \o <<58, 32, 109, 10>>,
     LevelInfo \o <<58, 32, 109, 10>>,
     <<97, 98, 32, 99, 32, 100, 10>>}
ScenarioFiles == SeqsUpTo(ScenarioLines, MaxLines)

\* exclude_keywords = ["health_check", "debug"], exclude_log_levels = ["INFO"]
HealthCheck == <<104, 101, 97, 108, 116, 104, 95, 99, 104, 101, 99, 107>>
MainKeywords == <<HealthCheck, Debug>>
MainLevels == <<LevelInfo>>

\* log_analysis.processor.clean_logs(...) after process_log_file has returned
MainCleanLogs(fault) ==
    /\ pc = "COMPLETED"
    /\ Commit("clean_logs", 0, DeleteExcluded(view, MainKeywords, MainLevels),
              FALSE, fault)
    /\ pc' = IF Raises(fault) THEN "FAILED" ELSE "CLEANED"
    /\ UNCHANGED <<conn, file, pos, chunk, chunk_size, yielded>>
    /\ UNCHANGED otherVars

\* except: the error is logged; finally: log_processor.close(), which drops
\* what was not committed
MainClose ==
    /\ pc \in {"CLEANED", "FAILED"}
    /\ pc' = IF pc = "CLEANED" THEN "DONE" ELSE "ERROR_LOGGED"
    /\ view' = durable
    /\ conn' = "none"
    /\ last' = [op |-> "close", n |-> 0, before |-> Len(view.rows), raised |-> FALSE]
    /\ UNCHANGED <<durable, assigned, file, pos, chunk, chunk_size, yielded>>
    /\ UNCHANGED otherVars

InitMain ==
    /\ view = EmptyDb
    /\ durable = EmptyDb
    /\ conn = "LogProcessor"
    /\ last = [op |-> "connect", n |-> 0, before |-> 0, raised |-> FALSE]
    /\ assigned = {}
    /\ file \in ScenarioFiles
    /\ chunk_size \in 1..MaxChunk
    /\ pos = 0
    /\ chunk = <<>>
    /\ yielded = <<>>
    /\ pc = "IDLE"
    /\ history = [m \in Modules |-> EmptyHistory]
    /\ clock = 1
    /\ call = NoCall
    /\ ret = NoCall

NextMain ==
    \/ ProcessStart
    \/ \E fault \in CommitFaults : ProcessLine(fault)
    \/ \E fault \in CommitFaults : ProcessEnd(fault)
    \/ ProcessReadError
    \/ \E fault \in CommitFaults : MainCleanLogs(fault)
    \/ MainClose

SpecMain == InitMain /\ [][NextMain]_vars

\* what the parser makes of the lines, without the records of level INFO, as
\* columns of the store
ExpectedRecords(lines) ==
    LET parsed == [i \in 1..Len(lines) |-> ParseLog(Strip(lines[i]))]
        kept == SelectSeq(parsed, LAMBDA log : log.level # LevelInfo)
    IN  [i \in 1..Len(kept) |->
            [timestamp |-> kept[i].timestamp, log_level |-> kept[i].level,
             message |-> kept[i].message]]

\* C23: from end to end, with INFO excluded, the store holds one record for
\* every line that is not of level INFO, in the order of the lines, each with
\* the severity its line states; a line of no recognised format is kept, with
\* level UNKNOWN and the line as its message.
C23_UnrecognisedLineIsKeptAsUnknown ==
    pc = "DONE" => Columns(durable.rows) = ExpectedRecords(file)

====
